---- MODULE Spec2Model ----
(***************************************************************************)
(* A model of webhooks.py, the GitHub webhook receiver: the Flask routes   *)
(* '/' (index) and '/check' (check), the process-wide GithubMeta cache,    *)
(* and the per-request pipeline of index():                                *)
(*   method check -> config -> allow-list refresh and source check ->      *)
(*   signature check -> ping -> payload parse -> branch and name           *)
(*   extraction -> push-delete -> hook resolution -> hook execution ->     *)
(*   response.                                                             *)
(*                                                                         *)
(* The program is modelled as it runs under `python webhooks.py`           *)
(* (Python 2, Flask's threaded development server): `ghm` is the single    *)
(* GithubMeta object of line 263 and every request is handled by a thread  *)
(* of its own.  A thread switch can happen between any two statements      *)
(* that touch shared state (ghm, the list objects it refers to, the        *)
(* temporary directory), so each of those statements is an action.         *)
(*                                                                         *)
(* Strings that the program splits or joins on '/' are sequences of their  *)
(* '/'-separated segments: "refs/heads/main" is <<"refs","heads","main">>  *)
(* and "" is <<"">>.  An IPv4 address is its four octets.  A Python        *)
(* optional (a value or None) is a record [has, v].                        *)
(***************************************************************************)
EXTENDS Integers, Sequences, FiniteSets, TLC

\* Number of request-handling threads (each handles at most one request).
NThreads == 2

Threads == 1..NThreads

Max(a, b) == IF a > b THEN a ELSE b

Min(a, b) == IF a < b THEN a ELSE b

RECURSIVE Pow2(_)
Pow2(n) == IF n = 0 THEN 1 ELSE 2 * Pow2(n - 1)

\* Python's None and a present value, for the optionals of the program.
Nothing == [has |-> FALSE, v |-> <<>>]

Some(s) == [has |-> TRUE, v |-> s]

(***************************************************************************)
(* ipaddress: addresses, networks and containment.                         *)
(***************************************************************************)
Net(a, b, c, d, plen) == [addr |-> <<a, b, c, d>>, plen |-> plen]

\* How many of the network's prefix bits fall into octet i.
PrefixBits(i, plen) == Max(0, Min(8, plen - 8 * (i - 1)))

\* InNetwork comparing only the octets the prefix covers whole (a /22 taken
\* for a /16).
InNetworkWholeOctets(ip, net) ==
    \A i \in 1..4 : PrefixBits(i, net.plen) = 8 => ip[i] = net.addr[i]

\* `src_ip in ip_network(valid_ip)`: the leading plen bits agree.
InNetwork(ip, net) ==
    \A i \in 1..4 :
        LET shift == Pow2(8 - PrefixBits(i, net.plen))
        IN  ip[i] \div shift = net.addr[i] \div shift

\* u'127.0.0.0/8'
Loopback == Net(127, 0, 0, 0, 8)

\* The `for valid_ip in whitelist: ... break ... else:` loop: does it break?
Allowed(ip, ranges) == \E i \in 1..Len(ranges) : InNetwork(ip, ranges[i])

(***************************************************************************)
(* The upstream https://api.github.com/meta: it has published a few        *)
(* versions of its document, each with an ETag and a 'hooks' list.         *)
(***************************************************************************)
MetaETag(v) == IF v = 1 THEN "etag-1" ELSE IF v = 2 THEN "etag-2" ELSE "etag-3"

MetaHooks(v) ==
    IF v = 1 THEN << Net(203, 0, 113, 0, 24) >>
    ELSE IF v = 2 THEN << Net(203, 0, 113, 0, 24), Net(192, 30, 252, 0, 22) >>
    ELSE << Net(192, 30, 252, 0, 22), Net(127, 0, 0, 0, 8) >>

(***************************************************************************)
(* config.json: a mapping; config.get(key, default).  `keys` is the set of *)
(* keys the document holds, the other fields their values.                 *)
(***************************************************************************)
ConfigGet(cfg, key, default) == IF key \in cfg.keys THEN cfg[key] ELSE default

\* A config document holding exactly the keys ks; an absent key's field is a filler.
MkConfig(ks, ips_only, loopback, secret, info) ==
    [keys |-> ks,
     github_ips_only |-> IF "github_ips_only" \in ks THEN ips_only ELSE TRUE,
     allow_loopback |-> IF "allow_loopback" \in ks THEN loopback ELSE FALSE,
     enforce_secret |-> IF "enforce_secret" \in ks THEN secret ELSE "",
     return_scripts_info |-> IF "return_scripts_info" \in ks THEN info ELSE FALSE]

(***************************************************************************)
(* hmac / header parsing.  A header value is a sequence of tokens; the     *)
(* token "=" is the character '=', every other token is a run of           *)
(* characters without '='.                                                 *)
(***************************************************************************)
\* mac.hexdigest(): lowercase hex of HMAC-SHA1(key, msg); distinct (key, msg)
\* pairs of the model have distinct digests.
HexDigest(key, msg) == "hmac(" \o key \o "," \o msg \o ")"

\* The same digits in upper case (a different string).
UpperHex(key, msg) == "HMAC(" \o key \o "," \o msg \o ")"

\* str.split('='): the runs between the '=' tokens, empty runs included.
RECURSIVE SplitEq(_)
SplitEq(toks) ==
    IF \A i \in 1..Len(toks) : toks[i] # "="
    THEN << toks >>
    ELSE LET k == CHOOSE i \in 1..Len(toks) :
                      toks[i] = "=" /\ \A j \in 1..(i - 1) : toks[j] # "="
         IN  << SubSeq(toks, 1, k - 1) >> \o SplitEq(SubSeq(toks, k + 1, Len(toks)))

(***************************************************************************)
(* JSON values of the payload.  A field of a mapping is a record           *)
(* [k, v]: k = "absent" (no such key), "str" (a string, v its segments),   *)
(* "null" (the JSON value null, Python's None) or "obj" (a mapping).       *)
(* The payload itself has a shape: "mapping", "list" (a JSON array) or     *)
(* "null" (get_json() returned None).                                      *)
(***************************************************************************)
Absent == [k |-> "absent", v |-> <<>>]

Null == [k |-> "null", v |-> <<>>]

Str(segs) == [k |-> "str", v |-> segs]

\* The outcome of a Python expression: a value, or an exception raised.
Return(val) == [exc |-> "", val |-> val]

Raise(e) == [exc |-> e, val |-> Nothing]

\* The Python value of a JSON field that is present: a string, or None.
PyValue(f) == IF f.k = "str" THEN Some(f.v) ELSE Nothing

\* `key in payload` for a payload that is a mapping or a list.
KeyIn(key, payload) == payload.shape = "mapping" /\ payload[key].k # "absent"

\* BranchOf taking the pull request's head ref (the source branch).
BranchOfHead(event, payload) ==
    IF payload.shape = "null" THEN Raise("TypeError")
    ELSE IF KeyIn("ref_type", payload)
    THEN IF payload.ref_type = Str(<<"branch">>)
         THEN IF payload.ref.k = "absent" THEN Return(Nothing)
              ELSE Return(PyValue(payload.ref))
         ELSE Return(Nothing)
    ELSE IF KeyIn("pull_request", payload)
    THEN LET pr == payload.pull_request
         IN  IF pr.k # "obj" THEN Raise("TypeError")
             ELSE IF pr.head.k = "absent" THEN Return(Nothing)
             ELSE IF pr.head.k # "obj" THEN Raise("TypeError")
             ELSE IF pr.head.ref.k = "absent" THEN Return(Nothing)
             ELSE Return(PyValue(pr.head.ref))
    ELSE IF event = <<"push">>
    THEN IF payload.shape # "mapping" THEN Raise("TypeError")
         ELSE IF payload.ref.k = "absent" THEN Return(Nothing)
         ELSE IF payload.ref.k # "str" THEN Raise("AttributeError")
         ELSE IF Len(payload.ref.v) < 3 THEN Raise("IndexError")
         ELSE Return(Some(SubSeq(payload.ref.v, 3, Len(payload.ref.v))))
    ELSE Return(Nothing)

\* if/elif chain that sets `branch`.  KeyError is caught
\* by the except clause and leaves branch = None; any other exception
\* propagates.
BranchOf(event, payload) ==
    IF payload.shape = "null" THEN Raise("TypeError")
    ELSE IF KeyIn("ref_type", payload)
    THEN IF payload.ref_type = Str(<<"branch">>)
         THEN IF payload.ref.k = "absent" THEN Return(Nothing)
              ELSE Return(PyValue(payload.ref))
         ELSE Return(Nothing)
    ELSE IF KeyIn("pull_request", payload)
    THEN LET pr == payload.pull_request
         IN  IF pr.k # "obj" THEN Raise("TypeError")
             ELSE IF pr.base.k = "absent" THEN Return(Nothing)
             ELSE IF pr.base.k # "obj" THEN Raise("TypeError")
             ELSE IF pr.base.ref.k = "absent" THEN Return(Nothing)
             ELSE Return(PyValue(pr.base.ref))
    ELSE IF event = <<"push">>
    THEN IF payload.shape # "mapping" THEN Raise("TypeError")
         ELSE IF payload.ref.k = "absent" THEN Return(Nothing)
         ELSE IF payload.ref.k # "str" THEN Raise("AttributeError")
         ELSE IF Len(payload.ref.v) < 3 THEN Raise("IndexError")
         ELSE Return(Some(SubSeq(payload.ref.v, 3, Len(payload.ref.v))))
    ELSE Return(Nothing)

\* name = payload['repository']['name'] if 'repository' in payload else None
NameOf(payload) ==
    IF payload.shape = "null" THEN Raise("TypeError")
    ELSE IF ~KeyIn("repository", payload) THEN Return(Nothing)
    ELSE IF payload.repository.k # "obj" THEN Raise("TypeError")
    ELSE IF payload.repository.name.k = "absent" THEN Raise("KeyError")
    ELSE Return(PyValue(payload.repository.name))

\* event == 'push' and payload['deleted']
IsPushDelete(event, payload) ==
    IF event # <<"push">> THEN Return(FALSE)
    ELSE IF payload.shape # "mapping" THEN Raise("TypeError")
    ELSE IF payload.deleted.k = "absent" THEN Raise("KeyError")
    ELSE Return(payload.deleted.k = "true")

(***************************************************************************)
(* Hook script paths, relative to the hooks directory.                     *)
(***************************************************************************)
\* Truthiness of an optional string: not None and not ''.
Truthy(opt) == opt.has /\ opt.v # <<"">>

\* '{}-{}'.format(a, b) on segment sequences: the last segment of a and the
\* first of b are joined by '-'.
Dash(a, b) ==
    SubSeq(a, 1, Len(a) - 1) \o << a[Len(a)] \o "-" \o b[1] >> \o SubSeq(b, 2, Len(b))

\* the list `scripts` before filtering.
PossibleHooks(event, name, branch) ==
    (IF Truthy(branch) /\ Truthy(name) THEN << Dash(Dash(event, name.v), branch.v) >> ELSE << >>)
    \o (IF Truthy(name) THEN << Dash(event, name.v) >> ELSE << >>)
    \o << event >>
    \o << <<"all">> >>

\* [s for s in scripts if isfile(s) and access(s, X_OK)]
RECURSIVE Executable(_, _)
Executable(scripts, files) ==
    IF scripts = << >> THEN << >>
    ELSE (IF Head(scripts) \in files THEN << Head(scripts) >> ELSE << >>)
         \o Executable(Tail(scripts), files)

\* os.path.basename
Basename(path) == path[Len(path)]

(***************************************************************************)
(* The signature check of index(): what the `if secret:` block does with   *)
(* the X-Hub-Signature header (an optional token sequence) and the body.   *)
(***************************************************************************)
Pass == [kind |-> "pass", code |-> 0, exc |-> ""]

AbortWith(code) == [kind |-> "abort", code |-> code, exc |-> ""]

Uncaught(e) == [kind |-> "raise", code |-> 500, exc |-> e]

\* EnforceSecretOutcome asking for the header before it looks at the secret.
EnforceSecretHeaderFirst(secret, header_signature, data) ==
    IF ~header_signature.has THEN AbortWith(403)
    ELSE IF secret = "" THEN Pass
    ELSE LET parts == SplitEq(header_signature.v)
         IN  IF Len(parts) # 2 THEN Uncaught("ValueError")
             ELSE IF parts[1] # <<"sha1">> THEN AbortWith(501)
             ELSE IF parts[2] # << HexDigest(secret, data) >> THEN AbortWith(403)
             ELSE Pass

EnforceSecretOutcome(secret, header_signature, data) ==
    IF secret = "" THEN Pass
    ELSE IF ~header_signature.has THEN AbortWith(403)
    ELSE LET parts == SplitEq(header_signature.v)
         IN  IF Len(parts) # 2 THEN Uncaught("ValueError")
             ELSE IF parts[1] # <<"sha1">> THEN AbortWith(501)
             ELSE IF parts[2] # << HexDigest(secret, data) >> THEN AbortWith(403)
             ELSE Pass

(***************************************************************************)
(* State.                                                                  *)
(***************************************************************************)
VARIABLES
    \* The environment, fixed for a behaviour: the request each thread
    \* receives, the content of config.json when that thread reads it, what
    \* the upstream answers to that thread's fetch, the executable files in
    \* the hooks directory.
    request, cfgfile, upstream, files,
    \* Shared by all threads: the GithubMeta object (etag, and a reference
    \* to a list object), the list objects, the files in the temporary
    \* directory.
    ghm, lists, tmpdir,
    \* Per thread: the position in the handler and the locals of index().
    pc, config, resp, whitelist, event, payload, branch, name, scripts,
    tmpfile, scr, ran,
    \* Per thread: the argument vectors of the processes started (Popen),
    \* and the HTTP response.
    popens, response

envVars == << request, cfgfile, upstream, files >>

sharedVars == << ghm, lists, tmpdir >>

localVars == << config, resp, whitelist, event, payload, branch, name, scripts,
                tmpfile, scr, ran, popens >>

vars == << request, cfgfile, upstream, files, ghm, lists, tmpdir, pc, config, resp,
           whitelist, event, payload, branch, name, scripts, tmpfile, scr, ran,
           popens, response >>

\* Names mkstemp() can give a file: one more than there are threads.
TmpNames == 1..(NThreads + 1)

NoResponse == [status |-> 0, body |-> "", at |-> ""]

NoResp == [status_code |-> 0, etag |-> "", hooks |-> << >>, json_ok |-> TRUE]

EmptyPayload ==
    [shape |-> "null", ref_type |-> Absent, ref |-> Absent,
     pull_request |-> [k |-> "absent", base |-> [k |-> "absent", ref |-> Absent],
                       head |-> [k |-> "absent", ref |-> Absent]],
     repository |-> [k |-> "absent", name |-> Absent],
     deleted |-> [k |-> "absent"]]

NoConfig == MkConfig({}, TRUE, FALSE, "", FALSE)

\* The response and the end of the handler; `at` is the statement that made it.
Finish(t, status, body) ==
    /\ response' = [response EXCEPT ![t] = [status |-> status, body |-> body, at |-> pc[t]]]
    /\ pc' = [pc EXCEPT ![t] = "done"]

\* abort(code)
Abort(t, code) == Finish(t, code, "abort")

\* An exception that nothing catches: Flask answers 500.
Crash(t, exc) == Finish(t, 500, exc)

\* The status codes abort() has an exception class for (werkzeug's
\* default_exceptions); abort() with any other code raises LookupError.
AbortCodes ==
    { 400, 401, 403, 404, 405, 406, 408, 409, 410, 411, 412, 413, 414, 415, 416, 417,
      418, 422, 423, 424, 428, 429, 431, 451, 500, 501, 502, 503, 504, 505 }

\* abort(resp.status_code), the code being whatever the upstream answered
AbortStatus(t, code) ==
    IF code \in AbortCodes THEN Abort(t, code) ELSE Crash(t, "LookupError")

Goto(t, label) ==
    /\ pc' = [pc EXCEPT ![t] = label]
    /\ UNCHANGED response

(***************************************************************************)
(* The routes.                                                             *)
(***************************************************************************)
\* @application.route('/', methods=['GET', 'POST']) and
\* @application.route('/check', methods=['GET', 'HEAD']): Flask adds HEAD to
\* a route that takes GET and answers 405 to a method the route does not
\* take.
Route(t) ==
    /\ pc[t] = "route"
    /\ IF request[t].path = "/" /\ request[t].method \in {"GET", "HEAD", "POST"}
       THEN Goto(t, "index")
       ELSE IF request[t].path = "/check" /\ request[t].method \in {"GET", "HEAD"}
       THEN Goto(t, "check")
       ELSE Abort(t, 405)
    /\ UNCHANGED << envVars, sharedVars, localVars >>

\* check()
Check(t) ==
    /\ pc[t] = "check"
    /\ IF request[t].method \notin {"GET", "HEAD"}
       THEN Abort(t, 501)
       ELSE Finish(t, 200, "ok")
    /\ UNCHANGED << envVars, sharedVars, localVars >>

(***************************************************************************)
(* index()                                                                 *)
(***************************************************************************)
\* CheckMethod without its abort: every method goes on to the configuration.
CheckMethodNoAbort(t) ==
    /\ pc[t] = "index"
    /\ Goto(t, "load_config")
    /\ UNCHANGED << envVars, sharedVars, localVars >>

\* if request.method != 'POST': abort(501)
CheckMethod(t) ==
    /\ pc[t] = "index"
    /\ IF request[t].method # "POST"
       THEN Abort(t, 501)
       ELSE Goto(t, "load_config")
    /\ UNCHANGED << envVars, sharedVars, localVars >>

\* config = loads(cfg.read()); if config.get('github_ips_only', True):
LoadConfig(t) ==
    /\ pc[t] = "load_config"
    /\ config' = [config EXCEPT ![t] = cfgfile[t]]
    /\ Goto(t, IF ConfigGet(cfgfile[t], "github_ips_only", TRUE) THEN "fetch" ELSE "secret")
    /\ UNCHANGED << envVars, sharedVars, resp, whitelist, event, payload, branch, name,
                    scripts, tmpfile, scr, ran, popens >>

\* resp = requests.get(..., headers={'If-None-Match': ghm.etag}) and the
\* dispatch on resp.status_code.
FetchMeta(t) ==
    /\ pc[t] = "fetch"
    /\ resp' = [resp EXCEPT ![t] =
                   [status_code |-> upstream[t].status,
                    etag |-> MetaETag(upstream[t].version),
                    hooks |-> MetaHooks(upstream[t].version),
                    json_ok |-> upstream[t].json_ok]]
    /\ IF upstream[t].status = 200 THEN Goto(t, "set_etag")
       ELSE IF upstream[t].status # 304 THEN AbortStatus(t, upstream[t].status)
       ELSE Goto(t, "whitelist")
    /\ UNCHANGED << envVars, sharedVars, config, whitelist, event, payload, branch, name,
                    scripts, tmpfile, scr, ran, popens >>

\* ghm.etag = resp.headers['eTag']
SetEtag(t) ==
    /\ pc[t] = "set_etag"
    /\ ghm' = [ghm EXCEPT !.etag = resp[t].etag]
    /\ Goto(t, "set_ips")
    /\ UNCHANGED << envVars, lists, tmpdir, localVars >>

\* ghm.ips = resp.json()['hooks']: a new list object, or an exception when
\* the body is not the JSON document expected.
SetIps(t) ==
    /\ pc[t] = "set_ips"
    /\ IF resp[t].json_ok
       THEN /\ lists' = [lists EXCEPT ![t] = resp[t].hooks]
            /\ ghm' = [ghm EXCEPT !.ips = t]
            /\ Goto(t, "whitelist")
       ELSE /\ Crash(t, "ValueError")
            /\ UNCHANGED << ghm, lists >>
    /\ UNCHANGED << envVars, tmpdir, localVars >>

\* whitelist = ghm.ips (a reference to the list object, not a copy)
GetWhitelist(t) ==
    /\ pc[t] = "whitelist"
    /\ whitelist' = [whitelist EXCEPT ![t] = ghm.ips]
    /\ Goto(t, "test_loopback")
    /\ UNCHANGED << envVars, sharedVars, config, resp, event, payload, branch, name,
                    scripts, tmpfile, scr, ran, popens >>

\* TestLoopback without the look at allow_loopback: the loopback range is
\* appended whenever the list does not hold it.
TestLoopbackAlways(t) ==
    /\ pc[t] = "test_loopback"
    /\ LET wl == lists[whitelist[t]]
       IN  IF \A i \in 1..Len(wl) : wl[i] # Loopback
           THEN Goto(t, "append_loopback")
           ELSE Goto(t, "check_source")
    /\ UNCHANGED << envVars, sharedVars, localVars >>

\* if config.get('allow_loopback', False) and u'127.0.0.0/8' not in whitelist:
TestLoopback(t) ==
    /\ pc[t] = "test_loopback"
    /\ LET wl == lists[whitelist[t]]
       IN  IF ConfigGet(config[t], "allow_loopback", FALSE)
              /\ \A i \in 1..Len(wl) : wl[i] # Loopback
           THEN Goto(t, "append_loopback")
           ELSE Goto(t, "check_source")
    /\ UNCHANGED << envVars, sharedVars, localVars >>

\* whitelist.append(u'127.0.0.0/8'): the list object itself grows
AppendLoopback(t) ==
    /\ pc[t] = "append_loopback"
    /\ lists' = [lists EXCEPT ![whitelist[t]] = Append(@, Loopback)]
    /\ Goto(t, "store_whitelist")
    /\ UNCHANGED << envVars, ghm, tmpdir, localVars >>

\* ghm.ips = whitelist
StoreWhitelist(t) ==
    /\ pc[t] = "store_whitelist"
    /\ ghm' = [ghm EXCEPT !.ips = whitelist[t]]
    /\ Goto(t, "check_source")
    /\ UNCHANGED << envVars, lists, tmpdir, localVars >>

\* for valid_ip in whitelist: if src_ip in ip_network(valid_ip): break
\* else: abort(403)
CheckSource(t) ==
    /\ pc[t] = "check_source"
    /\ IF Allowed(request[t].src_ip, lists[whitelist[t]])
       THEN Goto(t, "secret")
       ELSE Abort(t, 403)
    /\ UNCHANGED << envVars, sharedVars, localVars >>

\* secret = config.get('enforce_secret', ''); if secret: ...
EnforceSecret(t) ==
    /\ pc[t] = "secret"
    /\ LET out == EnforceSecretOutcome(ConfigGet(config[t], "enforce_secret", ""),
                                       request[t].signature, request[t].data)
       IN  IF out.kind = "pass" THEN Goto(t, "ping")
           ELSE IF out.kind = "abort" THEN Abort(t, out.code)
           ELSE Crash(t, out.exc)
    /\ UNCHANGED << envVars, sharedVars, localVars >>

\* Ping without the default: a request with no event header goes on to the
\* payload with event None.
PingNoDefault(t) ==
    /\ pc[t] = "ping"
    /\ LET ev == IF request[t].event.has THEN request[t].event.v ELSE <<"None">>
       IN  /\ event' = [event EXCEPT ![t] = ev]
           /\ IF ev = <<"ping">> THEN Finish(t, 200, "pong") ELSE Goto(t, "get_json")
    /\ UNCHANGED << envVars, sharedVars, config, resp, whitelist, payload, branch, name,
                    scripts, tmpfile, scr, ran, popens >>

\* event = request.headers.get('X-GitHub-Event', 'ping')
\* if event == 'ping': return dumps({'msg': 'pong'})
Ping(t) ==
    /\ pc[t] = "ping"
    /\ LET ev == IF request[t].event.has THEN request[t].event.v ELSE <<"ping">>
       IN  /\ event' = [event EXCEPT ![t] = ev]
           /\ IF ev = <<"ping">> THEN Finish(t, 200, "pong") ELSE Goto(t, "get_json")
    /\ UNCHANGED << envVars, sharedVars, config, resp, whitelist, payload, branch, name,
                    scripts, tmpfile, scr, ran, popens >>

\* try: payload = request.get_json()  except Exception: abort(400)
GetJson(t) ==
    /\ pc[t] = "get_json"
    /\ IF request[t].json.ok
       THEN /\ payload' = [payload EXCEPT ![t] = Some(request[t].json.payload)]
            /\ Goto(t, "branch")
       ELSE /\ Abort(t, 400)
            /\ UNCHANGED payload
    /\ UNCHANGED << envVars, sharedVars, config, resp, whitelist, event, branch, name,
                    scripts, tmpfile, scr, ran, popens >>

\* branch = None; try: ... except KeyError: pass
ExtractBranch(t) ==
    /\ pc[t] = "branch"
    /\ LET out == BranchOf(event[t], payload[t].v)
       IN  IF out.exc = ""
           THEN /\ branch' = [branch EXCEPT ![t] = out.val]
                /\ Goto(t, "name")
           ELSE /\ Crash(t, out.exc)
                /\ UNCHANGED branch
    /\ UNCHANGED << envVars, sharedVars, config, resp, whitelist, event, payload, name,
                    scripts, tmpfile, scr, ran, popens >>

\* name = payload['repository']['name'] if 'repository' in payload else None
ExtractName(t) ==
    /\ pc[t] = "name"
    /\ LET out == NameOf(payload[t].v)
       IN  IF out.exc = ""
           THEN /\ name' = [name EXCEPT ![t] = out.val]
                /\ Goto(t, "push_delete")
           ELSE /\ Crash(t, out.exc)
                /\ UNCHANGED name
    /\ UNCHANGED << envVars, sharedVars, config, resp, whitelist, event, payload, branch,
                    scripts, tmpfile, scr, ran, popens >>

\* if event == 'push' and payload['deleted']: return dumps({'status': 'skipped'})
SkipPushDelete(t) ==
    /\ pc[t] = "push_delete"
    /\ LET out == IsPushDelete(event[t], payload[t].v)
       IN  IF out.exc # "" THEN Crash(t, out.exc)
           ELSE IF out.val THEN Finish(t, 200, "skipped")
           ELSE Goto(t, "scripts")
    /\ UNCHANGED << envVars, sharedVars, localVars >>

\* scripts = []; ...; scripts.append(join(hooks, 'all'))
BuildScripts(t) ==
    /\ pc[t] = "scripts"
    /\ scripts' = [scripts EXCEPT ![t] = PossibleHooks(event[t], name[t], branch[t])]
    /\ Goto(t, "permissions")
    /\ UNCHANGED << envVars, sharedVars, config, resp, whitelist, event, payload, branch,
                    name, tmpfile, scr, ran, popens >>

\* scripts = [s for s in scripts if isfile(s) and access(s, X_OK)]
\* if not scripts: return dumps({'status': 'nop'})
CheckPermissions(t) ==
    /\ pc[t] = "permissions"
    /\ LET kept == Executable(scripts[t], files)
       IN  /\ scripts' = [scripts EXCEPT ![t] = kept]
           /\ IF kept = << >> THEN Finish(t, 200, "nop") ELSE Goto(t, "mkstemp")
    /\ UNCHANGED << envVars, sharedVars, config, resp, whitelist, event, payload, branch,
                    name, tmpfile, scr, ran, popens >>

\* osfd, tmpfile = mkstemp(); payloadfile.write(dumps(payload)); ran = {}
\* mkstemp creates a file under a name no file has.
SavePayload(t) ==
    /\ pc[t] = "mkstemp"
    /\ \E f \in TmpNames \ tmpdir :
          /\ tmpdir' = tmpdir \cup {f}
          /\ tmpfile' = [tmpfile EXCEPT ![t] = f]
    /\ scr' = [scr EXCEPT ![t] = 1]
    /\ Goto(t, "popen")
    /\ UNCHANGED << envVars, ghm, lists, config, resp, whitelist, event, payload, branch,
                    name, scripts, ran, popens >>

\* for scr in scripts: proc = Popen([scr, tmpfile, event], ...): the process
\* starts, or Popen raises OSError (the kernel cannot execute the file).
StartHook(t) ==
    /\ pc[t] = "popen"
    /\ \E started \in BOOLEAN :
          IF started
          THEN /\ popens' = [popens EXCEPT ![t] =
                                Append(@, << scripts[t][scr[t]], tmpfile[t], event[t] >>)]
               /\ Goto(t, "communicate")
          ELSE /\ Crash(t, "OSError")
               /\ UNCHANGED popens
    /\ UNCHANGED << envVars, sharedVars, config, resp, whitelist, event, payload, branch,
                    name, scripts, tmpfile, scr, ran >>

\* FinishHook leaving the loop at the first hook that returns a non-zero
\* exit code.
FinishHookBreakOnFailure(t) ==
    /\ pc[t] = "communicate"
    /\ \E returncode \in {0, 1}, utf8 \in BOOLEAN :
          IF utf8
          THEN /\ ran' = [ran EXCEPT ![t] =
                             [b \in DOMAIN @ \cup {Basename(scripts[t][scr[t]])} |->
                                 IF b = Basename(scripts[t][scr[t]])
                                 THEN [returncode |-> returncode, stdout |-> scripts[t][scr[t]]]
                                 ELSE @[b]]]
               /\ scr' = [scr EXCEPT ![t] = @ + 1]
               /\ Goto(t, IF scr[t] < Len(scripts[t]) /\ returncode = 0
                          THEN "popen" ELSE "remove")
          ELSE /\ Crash(t, "UnicodeDecodeError")
               /\ UNCHANGED << ran, scr >>
    /\ UNCHANGED << envVars, sharedVars, config, resp, whitelist, event, payload, branch,
                    name, scripts, tmpfile, popens >>

\* p_stdout, p_stderr = proc.communicate(); ran[basename(scr)] = {...}: the
\* hook ends with some exit code; its output is UTF-8, or decode() raises.
FinishHook(t) ==
    /\ pc[t] = "communicate"
    /\ \E returncode \in {0, 1}, utf8 \in BOOLEAN :
          IF utf8
          THEN /\ ran' = [ran EXCEPT ![t] =
                             [b \in DOMAIN @ \cup {Basename(scripts[t][scr[t]])} |->
                                 IF b = Basename(scripts[t][scr[t]])
                                 THEN [returncode |-> returncode, stdout |-> scripts[t][scr[t]]]
                                 ELSE @[b]]]
               /\ scr' = [scr EXCEPT ![t] = @ + 1]
               /\ Goto(t, IF scr[t] < Len(scripts[t]) THEN "popen" ELSE "remove")
          ELSE /\ Crash(t, "UnicodeDecodeError")
               /\ UNCHANGED << ran, scr >>
    /\ UNCHANGED << envVars, sharedVars, config, resp, whitelist, event, payload, branch,
                    name, scripts, tmpfile, popens >>

\* remove(tmpfile)
RemoveTmp(t) ==
    /\ pc[t] = "remove"
    /\ tmpdir' = tmpdir \ {tmpfile[t]}
    /\ Goto(t, "respond")
    /\ UNCHANGED << envVars, ghm, lists, localVars >>

\* info = config.get('return_scripts_info', False)
\* if not info: return dumps({'status': 'done'}) ... return output
Respond(t) ==
    /\ pc[t] = "respond"
    /\ IF ~ConfigGet(config[t], "return_scripts_info", FALSE)
       THEN Finish(t, 200, "done")
       ELSE Finish(t, 200, "ran")
    /\ UNCHANGED << envVars, sharedVars, localVars >>

Next ==
    \E t \in Threads :
        \/ Route(t)
        \/ Check(t)
        \/ CheckMethod(t)
        \/ LoadConfig(t)
        \/ FetchMeta(t)
        \/ SetEtag(t)
        \/ SetIps(t)
        \/ GetWhitelist(t)
        \/ TestLoopback(t)
        \/ AppendLoopback(t)
        \/ StoreWhitelist(t)
        \/ CheckSource(t)
        \/ EnforceSecret(t)
        \/ Ping(t)
        \/ GetJson(t)
        \/ ExtractBranch(t)
        \/ ExtractName(t)
        \/ SkipPushDelete(t)
        \/ BuildScripts(t)
        \/ CheckPermissions(t)
        \/ SavePayload(t)
        \/ StartHook(t)
        \/ FinishHook(t)
        \/ RemoveTmp(t)
        \/ Respond(t)

(***************************************************************************)
(* The initial states: the program after `ghm = GithubMeta()` and before   *)
(* any request is handled, in an environment drawn from bounded sets.      *)
(* Thread 1 handles the request under study; the other threads are idle    *)
(* or handle background traffic.  The environments are grouped by the      *)
(* stage of the pipeline they vary.                                        *)
(***************************************************************************)
IpLoopback == << 127, 0, 0, 1 >>

IpGithub == << 203, 0, 113, 7 >>

IpOutside == << 192, 0, 2, 1 >>

Req(path, method, src_ip, signature, ev, data, json) ==
    [path |-> path, method |-> method, src_ip |-> src_ip, signature |-> signature,
     event |-> ev, data |-> data, json |-> json]

Json(p) == [ok |-> TRUE, payload |-> p]

BadJson == [ok |-> FALSE, payload |-> EmptyPayload]

Upstream(status, version, json_ok) ==
    [status |-> status, version |-> version, json_ok |-> json_ok]

NoPull == [k |-> "absent", base |-> [k |-> "absent", ref |-> Absent],
           head |-> [k |-> "absent", ref |-> Absent]]

NoRepo == [k |-> "absent", name |-> Absent]

Repo(n) == [k |-> "obj", name |-> n]

Mapping(ref_type, ref, pull_request, repository, deleted) ==
    [shape |-> "mapping", ref_type |-> ref_type, ref |-> ref,
     pull_request |-> pull_request, repository |-> repository,
     deleted |-> [k |-> deleted]]

\* A push payload for repository "repo" on branch main.
PushMain == Mapping(Absent, Str(<<"refs", "heads", "main">>), NoPull,
                    Repo(Str(<<"repo">>)), "false")

Input(r, c, u) == [active |-> TRUE, request |-> r, cfg |-> c, upstream |-> u]

\* No source filtering, no secret.
OpenConfig == MkConfig({"github_ips_only"}, FALSE, FALSE, "", FALSE)

Idle == [active |-> FALSE,
         request |-> Req("/", "POST", IpGithub, Nothing, Nothing, "b1", BadJson),
         cfg |-> NoConfig, upstream |-> Upstream(200, 1, TRUE)]

InitProgram ==
    /\ ghm = [etag |-> "", ips |-> 0]
    /\ lists = [i \in 0..NThreads |-> << >>]
    /\ tmpdir = {}
    /\ config = [t \in Threads |-> NoConfig]
    /\ resp = [t \in Threads |-> NoResp]
    /\ whitelist = [t \in Threads |-> 0]
    /\ event = [t \in Threads |-> << >>]
    /\ payload = [t \in Threads |-> [has |-> FALSE, v |-> EmptyPayload]]
    /\ branch = [t \in Threads |-> Nothing]
    /\ name = [t \in Threads |-> Nothing]
    /\ scripts = [t \in Threads |-> << >>]
    /\ tmpfile = [t \in Threads |-> 0]
    /\ scr = [t \in Threads |-> 0]
    /\ ran = [t \in Threads |-> << >>]
    /\ popens = [t \in Threads |-> << >>]
    /\ response = [t \in Threads |-> NoResponse]

\* Thread 1 gets an input of T1, each other thread is idle or gets one of Bg,
\* the hooks directory holds one of the file sets Fs.
Environment(T1, Bg, Fs) ==
    \E one \in T1, bg \in [Threads \ {1} -> Bg \cup {Idle}], fs \in Fs :
        LET in == [t \in Threads |-> IF t = 1 THEN one ELSE bg[t]]
        IN  /\ request = [t \in Threads |-> in[t].request]
            /\ cfgfile = [t \in Threads |-> in[t].cfg]
            /\ upstream = [t \in Threads |-> in[t].upstream]
            /\ pc = [t \in Threads |-> IF in[t].active THEN "route" ELSE "idle"]
            /\ files = fs
            /\ InitProgram

\* Routing and the method check.
RouteInputs ==
    { Input(Req(p, m, IpGithub, Nothing, Some(<<"push">>), "b1", Json(PushMain)),
            OpenConfig, Upstream(200, 1, TRUE)) :
        p \in {"/", "/check"}, m \in {"GET", "HEAD", "POST", "PUT"} }

\* The allow-list refresh and the source check.
SourceIps ==
    { IpLoopback, IpGithub, IpOutside, << 203, 0, 112, 255 >>, << 192, 30, 248, 1 >>,
      << 192, 30, 255, 9 >> }

SourceConfigs ==
    { MkConfig(ks, TRUE, lb, "", FALSE) :
        ks \in {{}, {"github_ips_only", "allow_loopback"}}, lb \in BOOLEAN }

Upstreams ==
    { Upstream(200, 1, TRUE), Upstream(200, 2, TRUE), Upstream(200, 3, TRUE),
      Upstream(200, 2, FALSE), Upstream(304, 1, TRUE), Upstream(503, 1, TRUE),
      Upstream(202, 1, TRUE) }

SourceInputs ==
    { Input(Req("/", "POST", ip, Nothing, Nothing, "b1", Json(PushMain)), c, u) :
        ip \in SourceIps, c \in SourceConfigs, u \in Upstreams }

\* The same stage with the cache shared: fewer inputs for thread 1, and
\* background requests from a loopback address that refresh the cache or
\* put the loopback range on the cached list.
SharedCacheInputs ==
    { Input(Req("/", "POST", ip, Nothing, Nothing, "b1", Json(PushMain)),
            MkConfig({"allow_loopback"}, TRUE, lb, "", FALSE), u) :
        ip \in { IpLoopback, IpGithub, IpOutside, << 192, 30, 248, 1 >> },
        lb \in BOOLEAN,
        u \in { Upstream(200, 1, TRUE), Upstream(200, 2, TRUE), Upstream(200, 2, FALSE),
                Upstream(304, 1, TRUE), Upstream(503, 1, TRUE),
                Upstream(202, 1, TRUE) } }

SharedCacheBackground ==
    { Input(Req("/", "POST", IpLoopback, Nothing, Nothing, "b1", Json(PushMain)),
            MkConfig({"allow_loopback"}, TRUE, TRUE, "", FALSE), Upstream(200, 2, TRUE)),
      Input(Req("/", "POST", IpLoopback, Nothing, Nothing, "b1", Json(PushMain)),
            MkConfig({"allow_loopback"}, TRUE, FALSE, "", FALSE), Upstream(304, 1, TRUE)) }

\* The signature check.
Secrets == {"", "s1", "s2"}

Bodies == {"b1", "b2"}

Signatures ==
    { Nothing, Some(<< >>), Some(<<"sha1">>), Some(<<"md5">>), Some(<<"sha1", "=">>),
      Some(<<"=", HexDigest("s1", "b1")>>),
      Some(<<"sha1", "=", UpperHex("s1", "b1")>>),
      Some(<<"SHA1", "=", HexDigest("s1", "b1")>>),
      Some(<<"md5", "=", HexDigest("s1", "b1")>>),
      Some(<<"sha1", "=", HexDigest("s1", "b1"), "=", "x">>) }
    \cup { Some(<<"sha1", "=", HexDigest(k, d)>>) : k \in {"s1", "s2"}, d \in Bodies }

SignatureInputs ==
    { Input(Req("/", "POST", IpGithub, sig, ev, d, Json(PushMain)),
            MkConfig(ks, FALSE, FALSE, k, FALSE), Upstream(200, 1, TRUE)) :
        sig \in Signatures, ev \in {Nothing, Some(<<"push">>)}, d \in Bodies,
        ks \in {{"github_ips_only"}, {"github_ips_only", "enforce_secret"}},
        k \in Secrets }

\* Payload parsing, branch and name extraction, push-delete.
Events == { Nothing, Some(<<"ping">>), Some(<<"push">>), Some(<<"pull_request">>),
            Some(<<"create">>) }

RefTypes == { Absent, Str(<<"branch">>), Str(<<"tag">>) }

Refs == { Absent, Null, Str(<<"main">>), Str(<<"refs", "heads">>),
          Str(<<"refs", "heads", "main">>), Str(<<"refs", "heads", "a", "all">>) }

HeadRef == [k |-> "obj", ref |-> Str(<<"feature">>)]

Pulls ==
    { NoPull,
      [k |-> "null", base |-> [k |-> "absent", ref |-> Absent],
       head |-> [k |-> "absent", ref |-> Absent]],
      [k |-> "obj", base |-> [k |-> "absent", ref |-> Absent], head |-> HeadRef],
      [k |-> "obj", base |-> [k |-> "null", ref |-> Absent], head |-> HeadRef],
      [k |-> "obj", base |-> [k |-> "obj", ref |-> Absent], head |-> HeadRef],
      [k |-> "obj", base |-> [k |-> "obj", ref |-> Str(<<"main">>)], head |-> HeadRef] }

Repos == { NoRepo, [k |-> "null", name |-> Absent], Repo(Absent), Repo(Str(<<"repo">>)) }

Payloads ==
    { Mapping(rt, r, pr, rp, d) :
        rt \in RefTypes, r \in Refs, pr \in Pulls, rp \in Repos,
        d \in {"absent", "true", "false"} }
    \cup { EmptyPayload, [EmptyPayload EXCEPT !.shape = "list"] }

ExtractInputs ==
    { Input(Req("/", "POST", IpGithub, Nothing, ev, "b1", j), OpenConfig,
            Upstream(200, 1, TRUE)) :
        ev \in Events, j \in { Json(p) : p \in Payloads } \cup { BadJson } }

\* Hook resolution and execution.
HookFiles ==
    { <<"push-repo-main">>, <<"push-repo">>, <<"push">>, <<"all">>,
      <<"push-repo-a", "all">>, <<"all-repo">> }

HookPayloads ==
    { Mapping(rt, r, NoPull, rp, "false") :
        rt \in { Absent, Str(<<"branch">>) },
        r \in { Absent, Str(<<"main">>), Str(<<"refs", "heads", "main">>),
                Str(<<"refs", "heads", "a", "all">>), Str(<<"refs", "heads", "">>) },
        rp \in { NoRepo, Repo(Str(<<"repo">>)), Repo(Str(<<"">>)) } }

HookInputs ==
    { Input(Req("/", "POST", IpGithub, Nothing, Some(ev), "b1", Json(p)),
            MkConfig({"github_ips_only", "return_scripts_info"}, FALSE, FALSE, "", info),
            Upstream(200, 1, TRUE)) :
        ev \in { <<"push">>, <<"all">> }, p \in HookPayloads, info \in BOOLEAN }

\* Requests that run a hook at the same time, and a liveness probe.
ConcurrentInputs ==
    { Input(Req("/", "POST", IpGithub, Nothing, Some(<<"push">>), "b1", Json(PushMain)),
            MkConfig({"github_ips_only", "return_scripts_info"}, FALSE, FALSE, "", TRUE),
            Upstream(200, 1, TRUE)),
      Input(Req("/check", "GET", IpGithub, Nothing, Nothing, "b1", BadJson),
            NoConfig, Upstream(200, 1, TRUE)) }

ConcurrentBackground ==
    { Input(Req("/", "POST", IpGithub, Nothing, Some(<<"push">>), "b1", Json(PushMain)),
            OpenConfig, Upstream(200, 1, TRUE)) }

\* The whole pipeline with source filtering and a secret.
PipelineInputs ==
    { Input(Req("/", m, ip, sig, Some(<<"push">>), "b1", Json(PushMain)),
            MkConfig({"enforce_secret"}, TRUE, FALSE, "s1", FALSE), u) :
        m \in {"GET", "POST"}, ip \in {IpGithub, IpOutside},
        sig \in { Nothing, Some(<<"sha1", "=", HexDigest("s1", "b1")>>),
                  Some(<<"sha1", "=", HexDigest("s1", "b2")>>) },
        u \in { Upstream(200, 1, TRUE), Upstream(503, 1, TRUE) } }

\* One request at a time: thread 1 alone, every stage of the pipeline varied.
Init ==
    \/ Environment(RouteInputs, {}, { {}, {<<"all">>} })
    \/ Environment(PipelineInputs, {}, { {<<"push">>, <<"all">>} })
    \/ Environment(SourceInputs, {}, { {} })
    \/ Environment(SignatureInputs, {}, { {<<"all">>} })
    \/ Environment(ExtractInputs, {}, { {}, {<<"all">>} })
    \/ Environment(HookInputs, {}, SUBSET HookFiles)

\* Requests handled at the same time, or one after the other: the source
\* check against the shared cache, and hooks run side by side.
InitConcurrent ==
    \/ Environment(SharedCacheInputs, SharedCacheBackground, { {} })
    \/ Environment(ConcurrentInputs, ConcurrentBackground, { {<<"all">>} })

\* The same request sent twice, the second time with another X-Hub-Signature
\* header, to a server whose config.json has no secret or an empty one.
PairInputs ==
    { Input(Req("/", "POST", IpGithub, sig, ev, "b1", Json(PushMain)),
            MkConfig(ks, FALSE, FALSE, "", info), Upstream(200, 1, TRUE)) :
        sig \in Signatures, ev \in { Nothing, Some(<<"push">>) },
        ks \in { {"github_ips_only", "return_scripts_info"},
                 {"github_ips_only", "return_scripts_info", "enforce_secret"} },
        info \in BOOLEAN }

PairSignatures ==
    { Nothing, Some(<<"md5">>), Some(<<"sha1", "=", HexDigest("s1", "b2")>>),
      Some(<<"md5", "=", HexDigest("s1", "b1")>>) }

PairEnvironment ==
    \E one \in PairInputs, sig \in PairSignatures, fs \in { {}, {<<"all">>} } :
        LET in == [t \in Threads |->
                      IF t = 1 THEN one
                      ELSE IF t = 2
                      THEN [one EXCEPT !.request.signature = sig]
                      ELSE Idle]
        IN  /\ request = [t \in Threads |-> in[t].request]
            /\ cfgfile = [t \in Threads |-> in[t].cfg]
            /\ upstream = [t \in Threads |-> in[t].upstream]
            /\ pc = [t \in Threads |-> IF in[t].active THEN "route" ELSE "idle"]
            /\ files = fs
            /\ InitProgram

InitPair == InitConcurrent \/ PairEnvironment

Spec == Init /\ [][Next]_vars

SpecConcurrent == InitConcurrent /\ [][Next]_vars

SpecPair == InitPair /\ [][Next]_vars

(***************************************************************************)
(* Where a request is.  Order lists the statements of a request in program *)
(* order; a finished request stays at the statement that answered it.      *)
(***************************************************************************)
Order ==
    << "idle", "route", "check", "index", "load_config", "fetch", "set_etag", "set_ips",
       "whitelist", "test_loopback", "append_loopback", "store_whitelist",
       "check_source", "secret", "ping", "get_json", "branch", "name", "push_delete",
       "scripts", "permissions", "mkstemp", "popen", "communicate", "remove",
       "respond" >>

Rank(label) == CHOOSE i \in 1..Len(Order) : Order[i] = label

Pos(t) == IF pc[t] = "done" THEN response[t].at ELSE pc[t]

\* The statement `label` has been executed and the request went on.
Passed(t, label) == Rank(Pos(t)) > Rank(label)

\* The request ended at the statement `label`.
EndedAt(t, label) == pc[t] = "done" /\ response[t].at = label

\* The values index() reads from the configuration.
IpsOnly(t) == ConfigGet(config[t], "github_ips_only", TRUE)

Secret(t) == ConfigGet(config[t], "enforce_secret", "")

\* The scripts started so far, in the order of their start.
Started(t) == [i \in 1..Len(popens[t]) |-> popens[t][i][1]]

\* What the three checks of index() establish for a request.
ChecksPassed(t) ==
    /\ request[t].method = "POST"
    /\ IpsOnly(t) => \E i \in 1..Len(lists[whitelist[t]]) :
                         InNetwork(request[t].src_ip, lists[whitelist[t]][i])
    /\ Secret(t) # "" =>
           request[t].signature
               = Some(<< "sha1", "=", HexDigest(Secret(t), request[t].data) >>)

(***************************************************************************)
(* C1.  No hook process is started, and hook resolution is not reached,    *)
(* unless the request is a POST, its source address lies in the allow-list *)
(* it was checked against (when github_ips_only is on) and its signature   *)
(* header is 'sha1=' followed by the digest of its body under the secret   *)
(* (when a secret is configured); a request that was aborted has resolved  *)
(* no hook, created no temporary file and started no process.              *)
(***************************************************************************)
C1_ChecksBeforeHooks ==
    \A t \in Threads :
        /\ (Passed(t, "push_delete") \/ scripts[t] # << >> \/ popens[t] # << >>)
               => ChecksPassed(t)
        /\ response[t].body = "abort"
               => scripts[t] = << >> /\ tmpfile[t] = 0 /\ popens[t] = << >>

\* A hook was started for a request that went through all three checks.
C1_Witness ==
    \E t \in Threads :
        /\ popens[t] # << >>
        /\ IpsOnly(t)
        /\ Secret(t) # ""

\* The file thread t created is still there: mkstemp gives a name no
\* existing file has, so a name another thread holds too was free again.
TmpExists(t) ==
    /\ tmpfile[t] # 0
    /\ tmpfile[t] \in tmpdir
    /\ \A u \in Threads \ {t} : tmpfile[u] # tmpfile[t]

(***************************************************************************)
(* C2.  As claimed: once a request has completed, on whatever path (all    *)
(* hooks succeed, a hook exits non-zero, an invocation or the capture of   *)
(* its output raises, no hook is resolved), the temporary payload file     *)
(* created for it does not exist.                                          *)
(***************************************************************************)
C2_TmpRemovedOnEveryExit ==
    \A t \in Threads : pc[t] = "done" => ~TmpExists(t)

\* l is base with the loopback range appended some number of times.
Augmented(base, l) ==
    \E k \in 0..NThreads : l = base \o [i \in 1..k |-> Loopback]

(***************************************************************************)
(* C3.  As claimed: in every reachable state the cached ranges are those   *)
(* the upstream returned together with the cached ETag (the loopback range *)
(* possibly appended), or both are still the initial ones.                 *)
(***************************************************************************)
C3_CachedPairNotTorn ==
    \/ ghm.etag = "" /\ Augmented(<< >>, lists[ghm.ips])
    \/ \E v \in 1..3 :
           ghm.etag = MetaETag(v) /\ Augmented(MetaHooks(v), lists[ghm.ips])

\* The algorithm tag of a header: its text before the first '='.
Tag(h) == SplitEq(h.v)[1]

GoodSignature(t) ==
    request[t].signature = Some(<< "sha1", "=", HexDigest(Secret(t), request[t].data) >>)

(***************************************************************************)
(* C4.  As claimed: with a secret configured, the signature check lets the *)
(* request go on iff the header is 'sha1=' followed by the hex digest of   *)
(* the body, answers 403 when the header is missing or the digest differs, *)
(* answers 501 when the algorithm tag is not 'sha1', and does nothing      *)
(* else.                                                                   *)
(***************************************************************************)
C4_SignatureThreeOutcomes ==
    \A t \in Threads :
        (Passed(t, "load_config") /\ Secret(t) # ""
            /\ (Passed(t, "secret") \/ EndedAt(t, "secret")))
        => LET h == request[t].signature
           IN  \/ Passed(t, "secret") /\ GoodSignature(t)
               \/ /\ EndedAt(t, "secret")
                  /\ response[t].status = 403
                  /\ ~h.has \/ (Tag(h) = <<"sha1">> /\ ~GoodSignature(t))
               \/ /\ EndedAt(t, "secret")
                  /\ response[t].status = 501
                  /\ h.has /\ Tag(h) # <<"sha1">>

\* ip lies between the first and the last address of the network.
Covers(net, ip) ==
    \A i \in 1..4 :
        /\ net.addr[i] <= ip[i]
        /\ ip[i] <= net.addr[i] + Pow2(8 - PrefixBits(i, net.plen)) - 1

InSomeRange(ip, ranges) == \E i \in 1..Len(ranges) : Covers(ranges[i], ip)

(***************************************************************************)
(* C5.  With github_ips_only on, a request that gets past the source check *)
(* has a source address inside one of the ranges of the list it was        *)
(* checked against, and, unless the address is in 127.0.0.0/8, inside a    *)
(* range the upstream returned; the source check lets a request go on when *)
(* a range of that list holds the address and answers 403 otherwise.       *)
(* Containment is stated on the range of addresses a network spans.        *)
(***************************************************************************)
C5_SourceCheck ==
    /\ [](\A t \in Threads :
            (Passed(t, "load_config") /\ IpsOnly(t) /\ Passed(t, "check_source"))
            => /\ InSomeRange(request[t].src_ip, lists[whitelist[t]])
               /\ request[t].src_ip[1] # 127
                      => \E v \in 1..3 :
                             /\ InSomeRange(request[t].src_ip, MetaHooks(v))
                             /\ Augmented(MetaHooks(v), lists[whitelist[t]]))
    /\ [][\A t \in Threads :
            (pc[t] = "check_source" /\ pc'[t] # "check_source")
            => IF InSomeRange(request[t].src_ip, lists[whitelist[t]])
               THEN pc'[t] = "secret"
               ELSE /\ pc'[t] = "done"
                    /\ response'[t] = [status |-> 403, body |-> "abort", at |-> "check_source"]]_vars

\* A source outside 127.0.0.0/8 and outside the upstream's ranges was
\* rejected although allow_loopback put the loopback range on the list.
C5_Witness ==
    \E t \in Threads :
        /\ EndedAt(t, "check_source")
        /\ response[t].status = 403
        /\ ConfigGet(config[t], "allow_loopback", FALSE)
        /\ \E i \in 1..Len(lists[whitelist[t]]) : lists[whitelist[t]][i] = Loopback
        /\ request[t].src_ip = IpOutside

(***************************************************************************)
(* C6.  As claimed: a push request that got past the signature check and   *)
(* whose parsed payload has deleted = true ends with the response          *)
(* 'skipped' and starts no hook, whatever the rest of the payload is.      *)
(***************************************************************************)
C6_PushDeleteSkipped ==
    \A t \in Threads :
        (/\ pc[t] = "done"
         /\ Passed(t, "secret")
         /\ request[t].event = Some(<<"push">>)
         /\ request[t].json.ok
         /\ request[t].json.payload.shape = "mapping"
         /\ request[t].json.payload.deleted.k = "true")
        => /\ response[t].status = 200
           /\ response[t].body = "skipped"
           /\ popens[t] = << >>

(***************************************************************************)
(* C7.  A request that got past the signature check and whose              *)
(* X-GitHub-Event header is 'ping' or absent is answered 'pong' by the     *)
(* very next statement: no payload was parsed, no hook resolved, no        *)
(* temporary file created, no process started.                             *)
(***************************************************************************)
C7_PingShortCircuit ==
    \A t \in Threads :
        (/\ Passed(t, "secret")
         /\ pc[t] # "ping"
         /\ request[t].event \in {Nothing, Some(<<"ping">>)})
        => /\ pc[t] = "done"
           /\ response[t] = [status |-> 200, body |-> "pong", at |-> "ping"]
           /\ ~payload[t].has
           /\ scripts[t] = << >>
           /\ tmpfile[t] = 0
           /\ popens[t] = << >>

\* A request without event header, with a payload and with hooks in the
\* hooks directory, has been answered 'pong'.
C7_Witness ==
    \E t \in Threads :
        /\ EndedAt(t, "ping")
        /\ ~request[t].event.has
        /\ request[t].json.ok /\ request[t].json.payload.shape = "mapping"
        /\ files # {}

(***************************************************************************)
(* C8.  As claimed: extraction of the branch and of the repository name    *)
(* never ends the request: every request whose payload was parsed gets to  *)
(* the push-delete test.                                                   *)
(***************************************************************************)
C8_ExtractionNeverFails ==
    \A t \in Threads : ~EndedAt(t, "branch") /\ ~EndedAt(t, "name")

\* The string a payload field holds, None when it holds no string.
FieldValue(f) == IF f.k = "str" THEN Some(f.v) ELSE Nothing

\* The four rules as claimed.
ClaimedBranch(ev, p) ==
    IF p.ref_type = Str(<<"branch">>) THEN FieldValue(p.ref)
    ELSE IF p.pull_request.k # "absent" THEN FieldValue(p.pull_request.base.ref)
    ELSE IF ev = <<"push">>
    THEN IF p.ref.k = "str" /\ Len(p.ref.v) >= 3 THEN Some(<< p.ref.v[3] >>) ELSE Nothing
    ELSE Nothing

\* The four rules as amended.
RuleBranch(ev, p) ==
    IF p.ref_type.k # "absent"
    THEN IF p.ref_type = Str(<<"branch">>) THEN FieldValue(p.ref) ELSE Nothing
    ELSE IF p.pull_request.k # "absent" THEN FieldValue(p.pull_request.base.ref)
    ELSE IF ev = <<"push">>
    THEN IF p.ref.k = "str" /\ Len(p.ref.v) >= 3
         THEN Some(SubSeq(p.ref.v, 3, Len(p.ref.v)))
         ELSE Nothing
    ELSE Nothing

(***************************************************************************)
(* C9, as claimed.  The extracted branch is payload.ref when ref_type      *)
(* equals 'branch'; any other payload, also one with another ref_type,     *)
(* goes on to the base ref of its pull_request, and without pull_request   *)
(* a push gets the third slash-delimited segment of payload.ref.           *)
(***************************************************************************)
C9_AsClaimed ==
    \A t \in Threads :
        Passed(t, "branch") => branch[t] = ClaimedBranch(event[t], payload[t].v)

(***************************************************************************)
(* C9, as amended.  A payload that has a ref_type gets payload.ref when it *)
(* equals 'branch' and no branch otherwise, the other rules being tried    *)
(* only when there is no ref_type; then a pull_request gives its base ref, *)
(* never its head ref, and without pull_request a push gets all of         *)
(* payload.ref after its second slash.                                     *)
(***************************************************************************)
C9_BranchRules ==
    \A t \in Threads :
        Passed(t, "branch") => branch[t] = RuleBranch(event[t], payload[t].v)

\* A pull request payload got its base ref as branch, not its head ref.
C9_Witness ==
    \E t \in Threads :
        /\ Passed(t, "branch")
        /\ payload[t].v.pull_request.k = "obj"
        /\ payload[t].v.pull_request.head.ref = Str(<<"feature">>)
        /\ branch[t] = Some(<<"main">>)

\* A name or a branch is known when it is neither None nor ''.
Known(o) == o.has /\ o.v # <<"">>

Candidates(ev, nm, br) ==
    (IF Known(nm) /\ Known(br) THEN << Dash(Dash(ev, nm.v), br.v) >> ELSE << >>)
    \o (IF Known(nm) THEN << Dash(ev, nm.v) >> ELSE << >>)
    \o << ev, <<"all">> >>

IsExecutableFile(s) == s \in files

IsPrefix(a, b) == Len(a) <= Len(b) /\ a = SubSeq(b, 1, Len(a))

(***************************************************************************)
(* C10.  As claimed: before filtering, `scripts` is                        *)
(* '{event}-{name}-{branch}' (name and branch both known),                 *)
(* '{event}-{name}' (name known), '{event}', 'all', in this order; after   *)
(* filtering it is the candidates that are executable files, in the same   *)
(* order; the hooks are started in that order, and the hooks of a request  *)
(* that has completed are all of them.                                     *)
(***************************************************************************)
C10_HookList ==
    \A t \in Threads :
        /\ pc[t] = "permissions"
               => /\ scripts[t] = Candidates(event[t], name[t], branch[t])
                  /\ (event[t] = <<"push">> /\ name[t] = Some(<<"repo">>)
                         /\ branch[t] = Some(<<"main">>))
                     => scripts[t] = << <<"push-repo-main">>, <<"push-repo">>,
                                        <<"push">>, <<"all">> >>
        /\ (Passed(t, "permissions") \/ EndedAt(t, "permissions"))
               => scripts[t] = SelectSeq(Candidates(event[t], name[t], branch[t]),
                                         IsExecutableFile)
        /\ IsPrefix(Started(t), scripts[t])
        /\ (pc[t] = "done" /\ Passed(t, "permissions")) => Started(t) = scripts[t]

\* No element of the sequence occurs twice.
NoDuplicates(s) == \A i, j \in 1..Len(s) : s[i] = s[j] => i = j

(***************************************************************************)
(* C11.  As claimed: within one request no script path occurs twice in the *)
(* resolved list (the list after filtering), and no script is started      *)
(* twice, also when the event type is 'all' and the '{event}' candidate is *)
(* the path of the 'all' candidate.                                        *)
(***************************************************************************)
C11_NoHookTwice ==
    \A t \in Threads :
        /\ (Passed(t, "permissions") \/ EndedAt(t, "permissions"))
               => NoDuplicates(scripts[t])
        /\ NoDuplicates(Started(t))

(***************************************************************************)
(* C12.  The hooks are started one at a time, in the order of the resolved *)
(* list, the i-th process being [scripts[i], tmpfile, event]: a hook is    *)
(* started only when all before it have returned.  Whatever exit codes the *)
(* hooks return, once the loop is over every resolved hook has been        *)
(* started exactly once, and the request is answered 200.                  *)
(***************************************************************************)
C12_ExitCodeNeverAborts ==
    \A t \in Threads :
        /\ Len(popens[t]) <= Len(scripts[t])
        /\ \A i \in 1..Len(popens[t]) :
               popens[t][i] = << scripts[t][i], tmpfile[t], event[t] >>
        /\ pc[t] = "popen" => Len(popens[t]) = scr[t] - 1
        /\ pc[t] = "communicate" => Len(popens[t]) = scr[t]
        /\ Passed(t, "communicate")
               => /\ Len(popens[t]) = Len(scripts[t])
                  /\ pc[t] = "done" => response[t].status = 200

\* The first of several hooks returned a non-zero exit code; the others
\* were started all the same and the request was answered 200.
C12_Witness ==
    \E t \in Threads :
        /\ pc[t] = "done"
        /\ response[t].status = 200
        /\ Len(scripts[t]) >= 2
        /\ Len(popens[t]) = Len(scripts[t])
        /\ \E b \in DOMAIN ran[t] :
               ran[t][b].returncode = 1 /\ ran[t][b].stdout = scripts[t][1]

(***************************************************************************)
(* C13.  As claimed: with github_ips_only on, the fetch of a request whose *)
(* upstream answers a status other than 200 and 304 ends the request with  *)
(* exactly that status, there and then (no source check, no signature      *)
(* check, no hook); and no step of a request whose upstream answered       *)
(* anything but 200 changes the cached ETag or puts another list in the    *)
(* place of the cached ranges.                                             *)
(***************************************************************************)
C13_UpstreamStatusPropagated ==
    [][\A t \in Threads :
          pc'[t] # pc[t]
          => /\ (pc[t] = "fetch" /\ upstream[t].status \notin {200, 304})
                    => /\ pc'[t] = "done"
                       /\ response'[t] = [status |-> upstream[t].status,
                                          body |-> "abort", at |-> "fetch"]
                       /\ popens'[t] = << >>
             /\ upstream[t].status # 200 => ghm' = ghm]_vars

\* The responses index() is specified to end with.
SpecifiedOutcome(t) ==
    LET r == response[t]
    IN  \/ r = [status |-> 501, body |-> "abort", at |-> "index"]
        \/ r = [status |-> 403, body |-> "abort", at |-> "check_source"]
        \/ /\ upstream[t].status \notin {200, 304}
           /\ r = [status |-> upstream[t].status, body |-> "abort", at |-> "fetch"]
        \/ r.status \in {403, 501} /\ r.body = "abort" /\ r.at = "secret"
        \/ r = [status |-> 400, body |-> "abort", at |-> "get_json"]
        \/ r.status = 200 /\ r.body \in {"pong", "skipped", "nop", "done", "ran"}

(***************************************************************************)
(* C14.  As claimed: a request to '/' that has completed has ended in one  *)
(* of the specified outcomes: a rejection (501 method, 403 source, the     *)
(* upstream's status, 403 or 501 signature, 400 payload) or one of the     *)
(* responses pong, skipped, nop, done and the per-hook results; never in   *)
(* an unhandled error.                                                     *)
(***************************************************************************)
C14_TerminalOutcomes ==
    \A t \in Threads :
        (pc[t] = "done" /\ request[t].path = "/") => SpecifiedOutcome(t)

\* The request is between mkstemp() and the return of remove(tmpfile).
InFlight(t) == pc[t] \in {"popen", "communicate", "remove"}

(***************************************************************************)
(* C15.  As claimed: no two requests in flight hold the same temporary     *)
(* file path; every hook process of a request is passed the file of that   *)
(* request; and the file of a request exists while the request is between  *)
(* its creation and its removal, and at no other time.                     *)
(***************************************************************************)
C15_OwnTmpFile ==
    \A t \in Threads :
        /\ \A u \in Threads \ {t} :
               (InFlight(t) /\ InFlight(u)) => tmpfile[t] # tmpfile[u]
        /\ \A i \in 1..Len(popens[t]) :
               popens[t][i][2] = tmpfile[t] /\ tmpfile[t] # 0
        /\ InFlight(t) => tmpfile[t] \in tmpdir
        /\ TmpExists(t) => InFlight(t)

\* Requests t and u differ in nothing but the X-Hub-Signature header, and
\* met the same config.json and the same upstream answer.
SameButSignature(t, u) ==
    /\ request[t] = [request[u] EXCEPT !.signature = request[t].signature]
    /\ cfgfile[t] = cfgfile[u]
    /\ upstream[t] = upstream[u]

\* The request ended in an exception raised by a hook invocation.
HookRaised(t) == EndedAt(t, "popen") \/ EndedAt(t, "communicate")

(***************************************************************************)
(* C16.  When enforce_secret is empty or absent, no request ends at the    *)
(* signature check, and two requests that differ only in their            *)
(* X-Hub-Signature header (missing, wrong digest, another algorithm tag,   *)
(* malformed) get the same response.  The two are compared where nothing   *)
(* but the header can tell them apart: source filtering is off, so that    *)
(* neither reads the cache the other may have changed, and no hook         *)
(* invocation raised for one of them.                                      *)
(***************************************************************************)
C16_NoSecretNoCheck ==
    \A t \in Threads :
        (Passed(t, "load_config") /\ Secret(t) = "")
        => /\ ~EndedAt(t, "secret")
           /\ \A u \in Threads :
                  (/\ SameButSignature(t, u)
                   /\ ~IpsOnly(t)
                   /\ pc[t] = "done" /\ pc[u] = "done"
                   /\ ~HookRaised(t) /\ ~HookRaised(u))
                  => response[t] = response[u]

\* Without secret, a request with no signature header and the same request
\* with an algorithm tag other than sha1 both ran the hook and were answered
\* alike.
C16_Witness ==
    \E t, u \in Threads :
        /\ SameButSignature(t, u)
        /\ Secret(t) = "" /\ Secret(u) = ""
        /\ ~request[t].signature.has
        /\ request[u].signature = Some(<<"md5", "=", HexDigest("s1", "b1")>>)
        /\ pc[t] = "done" /\ pc[u] = "done"
        /\ popens[t] # << >> /\ popens[u] # << >>
        /\ response[t] = response[u]

(***************************************************************************)
(* C17.  As claimed: a request to '/' whose method is not POST is answered *)
(* 501 by the method test of index(), before the configuration is read,   *)
(* the allow-list fetched or a hook looked for; a GET or HEAD request to   *)
(* '/check' is answered 200 'ok'.                                          *)
(***************************************************************************)
C17_MethodRejected ==
    \A t \in Threads :
        pc[t] = "done"
        => /\ (request[t].path = "/" /\ request[t].method # "POST")
                  => /\ response[t] = [status |-> 501, body |-> "abort", at |-> "index"]
                     /\ config[t] = NoConfig
                     /\ resp[t] = NoResp
                     /\ scripts[t] = << >>
           /\ (request[t].path = "/check" /\ request[t].method \in {"GET", "HEAD"})
                  => response[t] = [status |-> 200, body |-> "ok", at |-> "check"]

(***************************************************************************)
(* C18.  As claimed: once the hook loop of a request is over, `ran` has as *)
(* many entries as hooks were started, and the entry under the basename of *)
(* each hook started is the result of that hook, not of another.           *)
(***************************************************************************)
C18_OneResultPerHook ==
    \A t \in Threads :
        Passed(t, "communicate")
        => /\ Cardinality(DOMAIN ran[t]) = Len(popens[t])
           /\ \A i \in 1..Len(popens[t]) :
                  /\ Basename(popens[t][i][1]) \in DOMAIN ran[t]
                  /\ ran[t][Basename(popens[t][i][1])].stdout = popens[t][i][1]

\* The request got past the source check from an address in 127.0.0.0/8.
LoopbackAdmitted(t) ==
    /\ Passed(t, "load_config") /\ IpsOnly(t)
    /\ Passed(t, "check_source")
    /\ request[t].src_ip[1] = 127

AllowLoopback(t) == ConfigGet(config[t], "allow_loopback", FALSE)

\* The list the request was checked against begins with ranges of the
\* upstream that hold its address.
UpstreamCovers(t) ==
    \E v \in 1..3 :
        /\ IsPrefix(MetaHooks(v), lists[whitelist[t]])
        /\ InSomeRange(request[t].src_ip, MetaHooks(v))

(***************************************************************************)
(* C19, as claimed.  A request from an address in 127.0.0.0/8 gets past    *)
(* the source check only if allow_loopback is true in the configuration    *)
(* read for that request or the upstream's ranges hold the address.        *)
(***************************************************************************)
C19_AsClaimed ==
    \A t \in Threads :
        LoopbackAdmitted(t) => AllowLoopback(t) \/ UpstreamCovers(t)

(***************************************************************************)
(* C19, as amended.  A request from an address in 127.0.0.0/8 gets past    *)
(* the source check only if the upstream's ranges hold the address, or     *)
(* allow_loopback is true in the configuration read for some request, this *)
(* one or another, that has gone through the loopback test on the very     *)
(* list object this request is checked against: the range a request        *)
(* appends stays on the cached list for the requests after it.             *)
(***************************************************************************)
C19_LoopbackStaysCached ==
    \A t \in Threads :
        LoopbackAdmitted(t)
        => \/ UpstreamCovers(t)
           \/ \E u \in Threads :
                  /\ AllowLoopback(u)
                  /\ Passed(u, "test_loopback")
                  /\ whitelist[u] = whitelist[t]

\* A request with allow_loopback false, to which the upstream answered 304,
\* was admitted from 127.0.0.1 on the list another request had augmented.
C19_Witness ==
    \E t \in Threads :
        /\ LoopbackAdmitted(t)
        /\ ~AllowLoopback(t)
        /\ upstream[t].status = 304
        /\ ~UpstreamCovers(t)
        /\ \E u \in Threads \ {t} : AllowLoopback(u) /\ whitelist[u] = whitelist[t]

====
